---- MODULE Spec2Model ----
(* Model of the fgldbsch schema tools:                                     *)
(*   schema_parser.py  SchemaParser : schema file -> SQLite schema_def     *)
(*   compare_sch.py    SchemaComparer : schema file vs schema_def          *)
(*   search_diff.py    search_different_size : filter of the JSON report   *)
(* A text string is a sequence of one-character strings.                   *)
EXTENDS Integers, Sequences, FiniteSets, TLC

VARIABLES
    file,         \* content of the schema file: a sequence of text lines
    db,           \* the SQLite database: [exists, rows] of table schema_def
    tables,       \* SchemaParser.tables: ordered dict, a sequence of [name, cols]
    nparse,       \* number of parse() calls made on the SchemaParser object
    differences,  \* SchemaComparer.differences
    runs,         \* number of compare_schemas() calls made on the SchemaComparer
    doc,          \* the JSON report file: [exists, records]
    filtered,     \* what search_different_size last returned: [done, target, records]
    parsed,       \* what SchemaComparer.parse_schema_line last returned: [done, value]
    call,         \* the last call made: which, how it ended, the store before it
    lastRun       \* the store and the differences of the last completed run

vars == <<file, db, tables, nparse, differences, runs, doc, filtered, parsed,
          call, lastRun>>

(***************************************************************************)
(* Bounds                                                                  *)
(***************************************************************************)
MaxLines == 2       \* lines in a schema file
MaxParse == 1       \* parse() calls on one SchemaParser
MaxRuns == 2        \* compare_schemas() calls on one SchemaComparer
MaxLineLen == 7     \* characters of a line given to the line parsers
MaxReportLines == 3 \* lines of a schema file whose report is filtered

(***************************************************************************)
(* Text                                                                    *)
(***************************************************************************)
None == << >>

\* str.strip() removes these at both edges (the whitespace of the alphabet)
Whitespace == {" ", "\n"}

\* code points, for SQLite's BINARY collation in ORDER BY
Code == [c \in {"\n", " ", "0", "1", "2", "4", "8", "T", "U", "^", "a", "b", "x"} |->
           CASE c = "\n" -> 10 [] c = " " -> 32 [] c = "0" -> 48 [] c = "1" -> 49
             [] c = "2" -> 50 [] c = "4" -> 52 [] c = "8" -> 56 [] c = "T" -> 84
             [] c = "U" -> 85 [] c = "^" -> 94 [] c = "a" -> 97 [] c = "b" -> 98
             [] c = "x" -> 120]

RECURSIVE lstrip(_)
lstrip(s) ==
    IF s # << >> /\ Head(s) \in Whitespace THEN lstrip(Tail(s)) ELSE s

RECURSIVE rstrip(_)
rstrip(s) ==
    IF s # << >> /\ s[Len(s)] \in Whitespace
    THEN rstrip(SubSeq(s, 1, Len(s) - 1)) ELSE s

strip(s) == rstrip(lstrip(s))

\* str.split('^'): the fields between the separators, empty fields kept
RECURSIVE split(_)
split(s) ==
    IF \A i \in 1..Len(s) : s[i] # "^"
    THEN <<s>>
    ELSE LET i == CHOOSE k \in 1..Len(s) :
                      s[k] = "^" /\ \A j \in 1..(k - 1) : s[j] # "^"
         IN  <<SubSeq(s, 1, i - 1)>> \o split(SubSeq(s, i + 1, Len(s)))

\* faulty variant: fewer than 6 fields are rejected, more are let through
parse_schema_line_atleast(line) ==
    LET parts == split(strip(line))
    IN  IF Len(parts) < 6 THEN None
        ELSE <<parts[1], parts[2], parts[3], parts[4], parts[5]>>

\* SchemaComparer.parse_schema_line
parse_schema_line(line) ==
    LET parts == split(strip(line))
    IN  IF Len(parts) # 6 THEN None
        ELSE <<parts[1], parts[2], parts[3], parts[4], parts[5]>>

\* self.tables as an ordered dict: the table names in insertion order
TableNames(tbls) == {tbls[i].name : i \in 1..Len(tbls)}

\* self.tables[table].append(col), the key being created when it is new
AppendColumn(tbls, table, col) ==
    IF table \in TableNames(tbls)
    THEN [i \in 1..Len(tbls) |->
            IF tbls[i].name = table
            THEN [name |-> table, cols |-> Append(tbls[i].cols, col)]
            ELSE tbls[i]]
    ELSE Append(tbls, [name |-> table, cols |-> <<col>>])

\* faulty variant: the line is split without being trimmed first
ParseStep_untrimmed(tbls, rawline) ==
    LET line == strip(rawline)
        parts == split(rawline)
    IN  IF line = << >> THEN tbls
        ELSE IF Len(parts) # 6 THEN tbls
        ELSE AppendColumn(tbls, parts[1], <<parts[2], parts[3], parts[4], parts[5]>>)

\* one iteration of the loop of SchemaParser.parse
ParseStep(tbls, rawline) ==
    LET line == strip(rawline)
        parts == split(strip(line))
    IN  IF line = << >> THEN tbls
        ELSE IF Len(parts) # 6 THEN tbls
        ELSE AppendColumn(tbls, parts[1], <<parts[2], parts[3], parts[4], parts[5]>>)

\* the loop of SchemaParser.parse over the lines of the file
RECURSIVE ParseLines(_, _)
ParseLines(tbls, lines) ==
    IF lines = << >> THEN tbls
    ELSE ParseLines(ParseStep(tbls, Head(lines)), Tail(lines))

(***************************************************************************)
(* The store: table schema_def of the SQLite database                      *)
(***************************************************************************)
NoTable == [exists |-> FALSE, rows |-> {}]

Row(t, c, ty, sz, pos) ==
    [table_name |-> t, column_name |-> c, type_id |-> ty, size |-> sz, position |-> pos]

\* CREATE TABLE IF NOT EXISTS schema_def, committed
create_db_schema(d) == IF d.exists THEN d ELSE [exists |-> TRUE, rows |-> {}]

\* DROP TABLE IF EXISTS schema_def: DDL, which sqlite3 runs outside any transaction
drop_table(d) == NoTable

\* faulty variant: the old rows are kept
delete_all_keep(rows) == rows

\* DELETE FROM schema_def
delete_all(rows) == {}

\* UNIQUE(table_name, column_name)
ViolatesUnique(rows, r) ==
    \E q \in rows : q.table_name = r.table_name /\ q.column_name = r.column_name

\* the list all_columns of export_to_sqlite: every column of every table, in dict order
RECURSIVE all_columns(_)
all_columns(tbls) ==
    IF tbls = << >> THEN << >>
    ELSE [j \in 1..Len(Head(tbls).cols) |->
            Row(Head(tbls).name, Head(tbls).cols[j][1], Head(tbls).cols[j][2],
                Head(tbls).cols[j][3], Head(tbls).cols[j][4])]
         \o all_columns(Tail(tbls))

\* cursor.executemany(INSERT ...): row after row, stopping at the first row the
\* uniqueness constraint rejects
RECURSIVE executemany(_, _)
executemany(rows, data) ==
    IF data = << >> THEN [ok |-> TRUE, rows |-> rows]
    ELSE IF ViolatesUnique(rows, Head(data)) THEN [ok |-> FALSE, rows |-> rows]
    ELSE executemany(rows \cup {Head(data)}, Tail(data))

\* faulty variant: the rollback leaves what the transaction had written
rollback_partial(committed, working) == working

\* conn.rollback(): the open transaction is undone
rollback(committed, working) == committed

\* conn.commit()
commit(committed, working) == working

\* the body of SchemaParser.export_to_sqlite on store d: the DELETE opens the
\* connection's implicit transaction, which the inserts run in
export_to_sqlite(d, tbls) ==
    LET created == create_db_schema(d)
        cleared == delete_all(created.rows)
        ins == executemany(cleared, all_columns(tbls))
    IN  IF ins.ok
        THEN [db |-> [exists |-> TRUE, rows |-> commit(created.rows, ins.rows)],
              failed |-> FALSE, printed |-> <<"Successfully exported schema">>]
        ELSE [db |-> [exists |-> TRUE, rows |-> rollback(created.rows, ins.rows)],
              failed |-> TRUE, printed |-> <<"Error exporting to database">>]

\* the body of SchemaParser.reset_and_save: no exception reaches its except
\* branch, export_to_sqlite having caught its own
reset_and_save(d, tbls) ==
    LET fresh == create_db_schema(drop_table(d))
        exp == export_to_sqlite(fresh, tbls)
    IN  [db |-> exp.db, failed |-> exp.failed,
         printed |-> exp.printed \o <<"Database reset and new schema saved">>]

\* memcmp order of two texts (BINARY collation)
RECURSIVE TextLeq(_, _)
TextLeq(a, b) ==
    IF a = << >> THEN TRUE
    ELSE IF b = << >> THEN FALSE
    ELSE IF Code[Head(a)] # Code[Head(b)] THEN Code[Head(a)] < Code[Head(b)]
    ELSE TextLeq(Tail(a), Tail(b))

\* ORDER BY table_name, position
RowLeq(r, q) ==
    IF r.table_name # q.table_name THEN TextLeq(r.table_name, q.table_name)
    ELSE TextLeq(r.position, q.position)

\* the orders in which the SELECT of load_from_sqlite may return the rows:
\* rows equal in (table_name, position) come in an order SQL leaves open
OrderedSelects(rows) ==
    {s \in [1..Cardinality(rows) -> rows] :
        /\ \A i, j \in 1..Cardinality(rows) : i # j => s[i] # s[j]
        /\ \A i \in 1..(Cardinality(rows) - 1) : RowLeq(s[i], s[i + 1])}

\* the loop of load_from_sqlite over the fetched rows
RECURSIVE LoadRows(_, _)
LoadRows(tbls, fetched) ==
    IF fetched = << >> THEN tbls
    ELSE LoadRows(AppendColumn(tbls, Head(fetched).table_name,
                      <<Head(fetched).column_name, Head(fetched).type_id,
                        Head(fetched).size, Head(fetched).position>>),
                  Tail(fetched))

\* SchemaComparer.get_db_column: fetchone() of the rows of that key
get_db_column(d, t, c) ==
    LET hits == {r \in d.rows : r.table_name = t /\ r.column_name = c}
    IN  IF hits = {} THEN None
        ELSE LET r == CHOOSE q \in hits : TRUE
             IN  <<r.type_id, r.size, r.position>>

(***************************************************************************)
(* The comparer                                                            *)
(***************************************************************************)
\* faulty variant: the record is filed with size and position exchanged
record_difference_swapped(diffs, table_name, column_name, diff_info) ==
    Append(diffs, [status |-> diff_info.status, table |-> table_name,
                   column |-> column_name,
                   file_info |-> [type |-> diff_info.file_info.type,
                                  size |-> diff_info.file_info.position,
                                  position |-> diff_info.file_info.size],
                   db_info |-> diff_info.db_info])

\* SchemaComparer._record_difference
record_difference(diffs, table_name, column_name, diff_info) ==
    Append(diffs, [status |-> diff_info.status, table |-> table_name,
                   column |-> column_name, file_info |-> diff_info.file_info,
                   db_info |-> diff_info.db_info])

\* faulty variant: the size is left out of the comparison against the store
CompareStep_nosize(d, diffs, line) ==
    IF strip(line) = << >> THEN diffs
    ELSE LET p == parse_schema_line(line)
         IN  IF p = None THEN diffs
             ELSE LET db_info == get_db_column(d, p[1], p[2])
                      file_info == [type |-> p[3], size |-> p[4], position |-> p[5]]
                  IN  IF db_info = None
                      THEN record_difference(diffs, p[1], p[2],
                               [status |-> "missing_in_db", file_info |-> file_info,
                                db_info |-> None])
                      ELSE IF db_info[1] # p[3] \/ db_info[3] # p[5]
                      THEN record_difference(diffs, p[1], p[2],
                               [status |-> "different", file_info |-> file_info,
                                db_info |-> [type |-> db_info[1], size |-> db_info[2],
                                             position |-> db_info[3]]])
                      ELSE diffs

\* one iteration of the loop of compare_schemas, the table existing
CompareStep(d, diffs, line) ==
    IF strip(line) = << >> THEN diffs
    ELSE LET p == parse_schema_line(line)
         IN  IF p = None THEN diffs
             ELSE LET db_info == get_db_column(d, p[1], p[2])
                      file_info == [type |-> p[3], size |-> p[4], position |-> p[5]]
                  IN  IF db_info = None
                      THEN record_difference(diffs, p[1], p[2],
                               [status |-> "missing_in_db", file_info |-> file_info,
                                db_info |-> None])
                      ELSE IF db_info[1] # p[3] \/ db_info[2] # p[4] \/ db_info[3] # p[5]
                      THEN record_difference(diffs, p[1], p[2],
                               [status |-> "different", file_info |-> file_info,
                                db_info |-> [type |-> db_info[1], size |-> db_info[2],
                                             position |-> db_info[3]]])
                      ELSE diffs

\* a line whose lookup is made: the SELECT raises when schema_def does not exist
NeedsLookup(line) == strip(line) # << >> /\ parse_schema_line(line) # None

\* the loop of compare_schemas: [raised, diffs]
RECURSIVE CompareLines(_, _, _)
CompareLines(d, diffs, lines) ==
    IF lines = << >> THEN [raised |-> FALSE, diffs |-> diffs]
    ELSE IF NeedsLookup(Head(lines)) /\ ~d.exists
    THEN [raised |-> TRUE, diffs |-> diffs]
    ELSE CompareLines(d, CompareStep(d, diffs, Head(lines)), Tail(lines))

(***************************************************************************)
(* The JSON report                                                         *)
(***************************************************************************)
NoFile == [exists |-> FALSE, records |-> << >>]

JsonNull == [json |-> "null"]

\* json.dump of one difference record: None is written as null
ToJson(r) ==
    [status |-> r.status, table |-> r.table, column |-> r.column,
     file_info |-> r.file_info,
     db_info |-> IF r.db_info = None THEN JsonNull ELSE r.db_info]

\* json.load of one record: null is read as None
FromJson(j) ==
    [status |-> j.status, table |-> j.table, column |-> j.column,
     file_info |-> j.file_info,
     db_info |-> IF j.db_info = JsonNull THEN None ELSE j.db_info]

\* json.dump(self.differences, f)
json_dump(diffs) == [exists |-> TRUE, records |-> [i \in 1..Len(diffs) |-> ToJson(diffs[i])]]

\* json.load(f)
json_load(d) == [i \in 1..Len(d.records) |-> FromJson(d.records[i])]

\* faulty variant: the records of the target size are the ones kept
filter_records_equal(recs, target_size) ==
    SelectSeq(recs, LAMBDA r : r.file_info.size = target_size)

\* the list comprehension of search_different_size
RECURSIVE filter_records(_, _)
filter_records(recs, target_size) ==
    IF recs = << >> THEN << >>
    ELSE (IF Head(recs).file_info.size # target_size THEN <<Head(recs)>> ELSE << >>)
         \o filter_records(Tail(recs), target_size)

\* search_different_size(json_file, target_size)
search_different_size(d, target_size) == filter_records(json_load(d), target_size)

(***************************************************************************)
(* Inputs                                                                  *)
(***************************************************************************)
\* "T^a^0^4^1^"
LineTa4 == <<"T", "^", "a", "^", "0", "^", "4", "^", "1", "^", "\n">>
\* "T^a^0^8^1^": the key of LineTa4 with another size
LineTa8 == <<"T", "^", "a", "^", "0", "^", "8", "^", "1", "^", "\n">>
\* " U^b^1^4^2^x ": blanks at the edges and a sixth field that is not empty
LineUb == <<" ", "U", "^", "b", "^", "1", "^", "4", "^", "2", "^", "x", " ", "\n">>
\* "T^b^1^4^1^": a second column of table T, at the position of T.a
LineTb == <<"T", "^", "b", "^", "1", "^", "4", "^", "1", "^", "\n">>
\* "T^a^0^4": four fields
LineShort == <<"T", "^", "a", "^", "0", "^", "4", "\n">>
\* a blank line
LineBlank == <<" ", "\n">>

SchemaLines == {LineTa4, LineTa8, LineUb, LineShort, LineBlank}

SeqsUpTo(S, n) == UNION {[1..k -> S] : k \in 0..n}

SchemaFiles == SeqsUpTo(SchemaLines, MaxLines)

\* the stores a run of the loader on some schema file leaves behind
LoadedStores == {export_to_sqlite(NoTable, ParseLines(<< >>, g)).db : g \in SchemaFiles}

\* the files given to the loader alone: two columns of a table may share a position
LoadFiles == SeqsUpTo(SchemaLines \cup {LineTb}, MaxLines)

\* the characters of the lines given to the line parsers
ParseAlphabet == {"^", " ", "a", "b"}

ParseFiles == {<<l>> : l \in SeqsUpTo(ParseAlphabet, MaxLineLen)}

\* "T^a^0^10^1^", "T^b^0^20^2^", "U^a^0^10^1^"
LineSize10 == <<"T", "^", "a", "^", "0", "^", "1", "0", "^", "1", "^", "\n">>
LineSize20 == <<"T", "^", "b", "^", "0", "^", "2", "0", "^", "2", "^", "\n">>
LineSize10U == <<"U", "^", "a", "^", "0", "^", "1", "0", "^", "1", "^", "\n">>

ReportFiles == SeqsUpTo({LineSize10, LineSize20, LineSize10U}, MaxReportLines)

ReportStores ==
    {[exists |-> TRUE, rows |-> {}],
     [exists |-> TRUE, rows |-> {Row(<<"T">>, <<"a">>, <<"0">>, <<"1", "0">>, <<"2">>)}]}

TargetSizes == {<<"1", "0">>, <<"2", "0">>, <<"4">>}

(***************************************************************************)
(* State                                                                   *)
(***************************************************************************)
NoCall == [op |-> "none", raised |-> FALSE, failed |-> FALSE, before |-> NoTable,
           base |-> 0, printed |-> << >>, exported |-> FALSE]

\* the record of a call: the store before it is kept for the calls that write
\* the store, the length of the difference list for the calls that append to it;
\* exported tells that the last call that wrote the store was an export_to_sqlite
\* or a reset_and_save that succeeded, made by a parser holding what parse()
\* reads from the file
Call(op, raised, failed, printed) ==
    [op |-> op, raised |-> raised, failed |-> failed,
     before |-> IF op \in {"export_to_sqlite", "reset_and_save"} THEN db ELSE NoTable,
     base |-> IF op = "compare_schemas" THEN Len(differences) ELSE 0,
     printed |-> printed,
     exported |-> IF op \in {"export_to_sqlite", "reset_and_save"}
                  THEN ~failed /\ tables = ParseLines(<< >>, file)
                  ELSE call.exported]

Fresh ==
    /\ tables = << >>
    /\ nparse = 0
    /\ differences = << >>
    /\ runs = 0
    /\ doc = NoFile
    /\ filtered = [done |-> FALSE, raised |-> FALSE, target |-> << >>, records |-> << >>]
    /\ parsed = [done |-> FALSE, line |-> << >>, value |-> None]
    /\ call = NoCall
    /\ lastRun = [valid |-> FALSE, db |-> NoTable, diffs |-> << >>]

Init ==
    /\ file \in SchemaFiles
    /\ db \in {NoTable} \cup LoadedStores
    /\ Fresh

InitLoad ==
    /\ file \in LoadFiles
    /\ db \in {NoTable} \cup
                {export_to_sqlite(NoTable, ParseLines(<< >>, g)).db : g \in LoadFiles}
    /\ Fresh

InitParse ==
    /\ file \in ParseFiles
    /\ db = NoTable
    /\ Fresh

InitFilter ==
    /\ file \in ReportFiles
    /\ db \in ReportStores
    /\ Fresh

(***************************************************************************)
(* Operations                                                              *)
(***************************************************************************)
\* SchemaParser(file_path, db_path)
NewParser ==
    /\ tables' = << >>
    /\ nparse' = 0
    /\ call' = Call("SchemaParser", FALSE, FALSE, << >>)
    /\ UNCHANGED <<file, db, differences, runs, doc, filtered, parsed, lastRun>>

\* SchemaParser.parse()
Parse ==
    /\ nparse < MaxParse
    /\ tables' = ParseLines(tables, file)
    /\ nparse' = nparse + 1
    /\ call' = Call("parse", FALSE, FALSE, << >>)
    /\ UNCHANGED <<file, db, differences, runs, doc, filtered, parsed, lastRun>>

\* SchemaParser.export_to_sqlite()
ExportToSqlite ==
    LET res == export_to_sqlite(db, tables)
    IN  /\ db' = res.db
        /\ call' = Call("export_to_sqlite", FALSE, res.failed, res.printed)
        /\ UNCHANGED <<file, tables, nparse, differences, runs, doc, filtered, parsed,
                       lastRun>>

\* SchemaParser.reset_and_save()
ResetAndSave ==
    LET res == reset_and_save(db, tables)
    IN  /\ db' = res.db
        /\ call' = Call("reset_and_save", FALSE, res.failed, res.printed)
        /\ UNCHANGED <<file, tables, nparse, differences, runs, doc, filtered, parsed,
                       lastRun>>

\* SchemaParser.load_from_sqlite(): the SELECT raises before self.tables is
\* assigned when schema_def does not exist
LoadFromSqlite ==
    /\ IF db.exists
       THEN \E fetched \in OrderedSelects(db.rows) :
               /\ tables' = LoadRows(<< >>, fetched)
               /\ call' = Call("load_from_sqlite", FALSE, FALSE, << >>)
       ELSE /\ tables' = tables
            /\ call' = Call("load_from_sqlite", TRUE, FALSE, << >>)
    /\ UNCHANGED <<file, db, nparse, differences, runs, doc, filtered, parsed, lastRun>>

\* SchemaComparer(schema_file, db_path)
NewComparer ==
    /\ differences' = << >>
    /\ runs' = 0
    /\ call' = Call("SchemaComparer", FALSE, FALSE, << >>)
    /\ UNCHANGED <<file, db, tables, nparse, doc, filtered, parsed, lastRun>>

\* SchemaComparer.parse_schema_line(line), for a line of the file
ParseSchemaLine ==
    /\ \E i \in 1..Len(file) :
          parsed' = [done |-> TRUE, line |-> file[i], value |-> parse_schema_line(file[i])]
    /\ call' = Call("parse_schema_line", FALSE, FALSE, << >>)
    /\ UNCHANGED <<file, db, tables, nparse, differences, runs, doc, filtered, lastRun>>

\* SchemaComparer.compare_schemas()
CompareSchemas ==
    LET res == CompareLines(db, differences, file)
    IN  /\ runs < MaxRuns
        /\ differences' = res.diffs
        /\ runs' = runs + 1
        /\ call' = Call("compare_schemas", res.raised, FALSE, << >>)
        /\ lastRun' = IF res.raised THEN lastRun
                      ELSE [valid |-> TRUE, db |-> db, diffs |-> res.diffs]
        /\ UNCHANGED <<file, db, tables, nparse, doc, filtered, parsed>>

\* SchemaComparer.export_json(output_file)
ExportJson ==
    /\ IF differences = << >>
       THEN /\ doc' = doc
            /\ call' = Call("export_json", FALSE, FALSE, <<"No differences found">>)
       ELSE /\ doc' = json_dump(differences)
            /\ call' = Call("export_json", FALSE, FALSE, <<"Differences exported">>)
    /\ UNCHANGED <<file, db, tables, nparse, differences, runs, filtered, parsed, lastRun>>

\* search_different_size(json_file, target_size): open() raises when the
\* report was never written
SearchDifferentSize ==
    /\ \E target \in TargetSizes :
          filtered' = IF doc.exists
                      THEN [done |-> TRUE, raised |-> FALSE, target |-> target,
                            records |-> search_different_size(doc, target)]
                      ELSE [done |-> TRUE, raised |-> TRUE, target |-> target,
                            records |-> << >>]
    /\ call' = Call("search_different_size", ~doc.exists, FALSE, << >>)
    /\ UNCHANGED <<file, db, tables, nparse, differences, runs, doc, parsed, lastRun>>

Next ==
    \/ NewParser
    \/ Parse
    \/ ExportToSqlite
    \/ ResetAndSave
    \/ LoadFromSqlite
    \/ NewComparer
    \/ CompareSchemas
    \/ ExportJson

Spec == Init /\ [][Next]_vars

NextParse ==
    \/ Parse
    \/ ParseSchemaLine

SpecParse == InitParse /\ [][NextParse]_vars

NextFilter ==
    \/ NewComparer
    \/ CompareSchemas
    \/ ExportJson
    \/ SearchDifferentSize

SpecFilter == InitFilter /\ [][NextFilter]_vars

NextLoad ==
    \/ NewParser
    \/ Parse
    \/ ExportToSqlite
    \/ ResetAndSave
    \/ LoadFromSqlite

\* the loader alone
SpecLoad == InitLoad /\ [][NextLoad]_vars

NextCompare ==
    \/ NewComparer
    \/ CompareSchemas
    \/ ExportJson

\* the comparer alone, against a store some earlier load left
SpecCompare == Init /\ [][NextCompare]_vars

NextRound ==
    \/ Parse
    \/ ExportToSqlite
    \/ ResetAndSave
    \/ NewComparer
    \/ CompareSchemas

\* one loader, then comparers: the store is written by the loader alone
SpecRound == Init /\ [][NextRound]_vars

(***************************************************************************)
(* What the properties are stated with                                     *)
(***************************************************************************)
NonBlank(s) == {i \in 1..Len(s) : s[i] \notin Whitespace}

Least(S) == CHOOSE x \in S : \A y \in S : x <= y

Greatest(S) == CHOOSE x \in S : \A y \in S : y <= x

\* the line without the whitespace at its two edges
Trimmed(s) ==
    IF NonBlank(s) = {} THEN << >>
    ELSE SubSeq(s, Least(NonBlank(s)), Greatest(NonBlank(s)))

Carets(s) == {i \in 1..Len(s) : s[i] = "^"}

\* where the k-th '^' of s stands; 0 for k = 0
CaretAt(s, k) ==
    IF k = 0 THEN 0
    ELSE CHOOSE p \in Carets(s) : Cardinality({q \in Carets(s) : q <= p}) = k

\* the k-th field of a text that has at least k separators
Field(s, k) == SubSeq(s, CaretAt(s, k - 1) + 1, CaretAt(s, k) - 1)

\* the record a line stands for: its first five fields when the trimmed line
\* has exactly six, none otherwise
FiveFields(line) ==
    LET t == Trimmed(line)
    IN  IF Cardinality(Carets(t)) # 5 THEN None
        ELSE <<Field(t, 1), Field(t, 2), Field(t, 3), Field(t, 4), Field(t, 5)>>

\* the entries of the store under a key
Entries(d, t, c) == {r \in d.rows : r.table_name = t /\ r.column_name = c}

MissingRecord(f) ==
    [status |-> "missing_in_db", table |-> f[1], column |-> f[2],
     file_info |-> [type |-> f[3], size |-> f[4], position |-> f[5]],
     db_info |-> None]

DifferentRecord(f, r) ==
    [status |-> "different", table |-> f[1], column |-> f[2],
     file_info |-> [type |-> f[3], size |-> f[4], position |-> f[5]],
     db_info |-> [type |-> r.type_id, size |-> r.size, position |-> r.position]]

\* what one line owes the report: nothing, or one record
Expected(line, d) ==
    LET f == FiveFields(line)
    IN  IF f = None THEN << >>
        ELSE IF Entries(d, f[1], f[2]) = {} THEN <<MissingRecord(f)>>
        ELSE LET r == CHOOSE q \in Entries(d, f[1], f[2]) : TRUE
             IN  IF r.type_id = f[3] /\ r.size = f[4] /\ r.position = f[5]
                 THEN << >>
                 ELSE <<DifferentRecord(f, r)>>

RECURSIVE ExpectedAll(_, _)
ExpectedAll(lines, d) ==
    IF lines = << >> THEN << >>
    ELSE Expected(Head(lines), d) \o ExpectedAll(Tail(lines), d)

\* the records the last compare_schemas run appended
Produced == SubSeq(differences, call.base + 1, Len(differences))

\* the keys the file declares
FileKeys == {<<FiveFields(file[i])[1], FiveFields(file[i])[2]>> :
                i \in {j \in 1..Len(file) : FiveFields(file[j]) # None}}

\* the entries a parser holds in self.tables
Held(tbls) ==
    UNION {{Row(tbls[i].name, tbls[i].cols[j][1], tbls[i].cols[j][2],
                tbls[i].cols[j][3], tbls[i].cols[j][4]) : j \in 1..Len(tbls[i].cols)} :
              i \in 1..Len(tbls)}

RECURSIVE HeldCount(_)
HeldCount(tbls) ==
    IF tbls = << >> THEN 0 ELSE Len(Head(tbls).cols) + HeldCount(Tail(tbls))

KeyUniverse == {<<"T">>, <<"U">>} \X {<<"a">>, <<"b">>}

(***************************************************************************)
(* Properties                                                              *)
(***************************************************************************)

\* C1: after one compare_schemas run of a fresh SchemaComparer, made against an
\* existing schema_def, the run has returned and the differences list is, in
\* file order, what each valid line owes: a 'missing_in_db' record when the
\* store has no entry of its key, a 'different' record with both sides when an
\* attribute differs, nothing when the three attributes are equal.
C1_FreshRunReport ==
    (call.op = "compare_schemas" /\ runs = 1) =>
        /\ db.exists => ~call.raised
        /\ ~call.raised => differences = ExpectedAll(file, db)

C1_Witness ==
    /\ call.op = "compare_schemas" /\ runs = 1 /\ ~call.raised
    /\ Len(differences) = 2
    /\ differences[1].status = "different"
    /\ differences[2].status = "missing_in_db"

\* C2: when the insert step of export_to_sqlite fails, the store holds after
\* the call exactly the entries it held before it, and a load_from_sqlite
\* that follows returns those entries, each once.
C2_BulkReplaceAtomic ==
    [][/\ (call'.op = "export_to_sqlite" /\ call'.failed) =>
              (db'.exists /\ db'.rows = db.rows)
       /\ (call.op = "export_to_sqlite" /\ call.failed
             /\ call'.op = "load_from_sqlite") =>
              /\ ~call'.raised
              /\ Held(tables') = call.before.rows
              /\ HeldCount(tables') = Cardinality(call.before.rows)]_vars

C2_Witness ==
    /\ call.op = "export_to_sqlite" /\ call.failed
    /\ call.before.rows # {}
    /\ db.rows = call.before.rows

\* C3 (as claimed): with the file and the store unchanged, a compare_schemas
\* run leaves the differences the run before it left, on the same
\* SchemaComparer or on a new one.
C3_Idempotent ==
    [][(runs' = runs + 1 /\ lastRun.valid /\ lastRun.db = db) =>
           differences' = lastRun.diffs]_vars

\* C4 (as claimed): a key the file declares and the store lacks gets exactly
\* one 'missing_in_db' record from a run.
C4_ExactlyOnePerKey ==
    (call.op = "compare_schemas" /\ ~call.raised /\ db.exists) =>
        \A k \in FileKeys :
            Entries(db, k[1], k[2]) = {} =>
                Cardinality({i \in 1..Len(Produced) :
                               /\ Produced[i].status = "missing_in_db"
                               /\ Produced[i].table = k[1]
                               /\ Produced[i].column = k[2]}) = 1

\* C4 (amended): for a key absent from the store, a run produces one
\* 'missing_in_db' record for every valid line that declares the key, in file
\* order, each with its own line's type, size and position.
C4_OnePerDeclaringLine ==
    (call.op = "compare_schemas" /\ ~call.raised /\ db.exists) =>
        \A k \in FileKeys :
            Entries(db, k[1], k[2]) = {} =>
                LET declaring == SelectSeq(file, LAMBDA l :
                                     /\ FiveFields(l) # None
                                     /\ FiveFields(l)[1] = k[1]
                                     /\ FiveFields(l)[2] = k[2])
                    got == SelectSeq(Produced, LAMBDA r :
                               r.table = k[1] /\ r.column = k[2])
                IN  got = [i \in 1..Len(declaring) |->
                             MissingRecord(FiveFields(declaring[i]))]

C4_Witness ==
    /\ call.op = "compare_schemas" /\ ~call.raised /\ db.exists
    /\ Len(Produced) = 2
    /\ Produced[1].status = "missing_in_db" /\ Produced[2].status = "missing_in_db"
    /\ Produced[1].table = Produced[2].table
    /\ Produced[1].column = Produced[2].column
    /\ Produced[1].file_info # Produced[2].file_info

\* C5 (as claimed): when the insert step fails inside reset_and_save, the
\* store holds afterwards the entries it held before reset_and_save.
C5_ResetAtomic ==
    (call.op = "reset_and_save" /\ call.failed) => db.rows = call.before.rows

\* C6: a line gives a record exactly when its trimmed text has six fields, the
\* record being the first five fields in order; parse_schema_line and
\* SchemaParser.parse take the same lines and give the same five values.
C6_LineParsing ==
    /\ parsed.done => parsed.value = FiveFields(parsed.line)
    /\ (nparse = 1 /\ Len(file) = 1) =>
          LET f == FiveFields(file[1])
          IN  tables = IF f = None THEN << >>
                       ELSE <<[name |-> f[1], cols |-> <<<<f[2], f[3], f[4], f[5]>>>>]>>

C6_Witness ==
    /\ parsed.done /\ nparse = 1 /\ Len(file) = 1
    /\ parsed.line = file[1]
    /\ file[1] # << >> /\ Head(file[1]) = " "
    /\ parsed.value # None
    /\ parsed.value[2] = <<"a">>
    /\ tables # << >>

\* C7: after a successful export_to_sqlite of the parsed records R, the lookup
\* of every key gives R's attributes when R declares the key and nothing when
\* it does not, and no key has two entries.
C7_StoreIsExactlyR ==
    (call.op = "export_to_sqlite" /\ ~call.failed) =>
        \A k \in KeyUniverse :
            LET inR == {r \in Held(tables) : r.table_name = k[1] /\ r.column_name = k[2]}
            IN  /\ Cardinality(Entries(db, k[1], k[2])) <= 1
                /\ inR = {} => get_db_column(db, k[1], k[2]) = None
                /\ \A r \in inR :
                       get_db_column(db, k[1], k[2]) = <<r.type_id, r.size, r.position>>

C7_Witness ==
    /\ call.op = "export_to_sqlite" /\ ~call.failed
    /\ tables # << >>
    /\ \E q \in call.before.rows :
          /\ Entries(db, q.table_name, q.column_name) = {}
          /\ \A r \in Held(tables) :
                 ~(r.table_name = q.table_name /\ r.column_name = q.column_name)

\* C8 (as claimed): when the insert step fails, the caller of export_to_sqlite
\* or of reset_and_save gets an error, and no success is reported.
C8_FailureSurfaced ==
    (call.op \in {"export_to_sqlite", "reset_and_save"} /\ call.failed) =>
        /\ call.raised
        /\ \A i \in 1..Len(call.printed) :
               call.printed[i] \notin {"Successfully exported schema",
                                       "Database reset and new schema saved"}

\* C9: search_different_size returns the records of the report whose
\* file_info.size is not the target, in the report's order and as they are in
\* the report; of a report with sizes 10, 20, 10 and target 10 it returns the
\* one record of size 20.
C9_SizeFilter ==
    (call.op = "search_different_size" /\ ~filtered.raised) =>
        LET report == doc.records
            keep == {i \in 1..Len(report) : report[i].file_info.size # filtered.target}
            nth(k) == CHOOSE i \in keep : Cardinality({j \in keep : j <= i}) = k
            same(py, js) ==
                /\ py.status = js.status /\ py.table = js.table
                /\ py.column = js.column /\ py.file_info = js.file_info
                /\ IF js.db_info = JsonNull THEN py.db_info = None
                   ELSE py.db_info = js.db_info
        IN  /\ Len(filtered.records) = Cardinality(keep)
            /\ \A k \in 1..Len(filtered.records) : same(filtered.records[k], report[nth(k)])
            /\ ([i \in 1..Len(report) |-> report[i].file_info.size]
                    = <<<<"1", "0">>, <<"2", "0">>, <<"1", "0">>>>
                  /\ filtered.target = <<"1", "0">>) =>
                   /\ Len(filtered.records) = 1
                   /\ filtered.records[1].file_info.size = <<"2", "0">>
                   /\ filtered.records[1].column = report[2].column

C9_Witness ==
    /\ call.op = "search_different_size" /\ ~filtered.raised
    /\ [i \in 1..Len(doc.records) |-> doc.records[i].file_info.size]
           = <<<<"1", "0">>, <<"2", "0">>, <<"1", "0">>>>
    /\ filtered.target = <<"1", "0">>
    /\ Len(filtered.records) = 1

\* C10 (as claimed): after export_json returns, the document is the
\* serialization of the comparer's current difference sequence, the empty one
\* included.
C10_DocumentIsCurrent ==
    (call.op = "export_json") => (doc.exists /\ json_load(doc) = differences)

\* C11: when export_to_sqlite or reset_and_save has succeeded for the records
\* parsed from the file and no later call has written the store, the first
\* compare_schemas run of a fresh SchemaComparer on the same file returns with
\* an empty difference sequence.
C11_RoundTrip ==
    (call.op = "compare_schemas" /\ runs = 1 /\ call.exported) =>
        (~call.raised /\ differences = << >>)

C11_Witness ==
    /\ call.op = "compare_schemas" /\ runs = 1 /\ call.exported
    /\ ~call.raised /\ differences = << >>
    /\ Cardinality(db.rows) = 2
    /\ \E i \in 1..Len(file) : file[i] = LineUb
====
